---- MODULE Spec2Model ----
(***************************************************************************)
(* Model of src/main.py: the Portainer orchestration script.               *)
(*                                                                         *)
(* The script is one sequential run: authenticate, list the stacks, for    *)
(* each stack list its containers, fetch each container's logs and notify, *)
(* then create one stack and do the same for it.  Every remote call is one *)
(* step of the model; the server's answer (transport failure, or a status  *)
(* and a body) is chosen nondeterministically.  `calls` is the history of  *)
(* every call the run has made, in order.                                  *)
(***************************************************************************)
EXTENDS Integers, Sequences, FiniteSets, TLC

VARIABLES
    pc,            \* position of the run in the __main__ block
    jwt_token,     \* main.py:191
    stacks,        \* main.py:197
    si,            \* position of `for stack in stacks` (main.py:199)
    stack,         \* loop variable of main.py:199; unbound until the first iteration
    stack_id,      \* main.py:201 and main.py:240
    containers,    \* main.py:203 and main.py:245
    ci,            \* position of `for container in containers` (main.py:205, 247)
    container_id,  \* main.py:208 and main.py:250
    logs,          \* main.py:217 and main.py:252
    response,      \* the latest HTTP response object (`response` in each client function)
    error,         \* the exception in flight or handled, None when there is none
    caught,        \* the except clauses of main.py:263-266 that have run, in order
    calls          \* history: every remote call and notification made, in order

vars == <<pc, jwt_token, stacks, si, stack, stack_id, containers, ci,
          container_id, logs, response, error, caught, calls>>

(***************************************************************************)
(* Bounds of the server's answers.                                         *)
(***************************************************************************)
MaxStacks == 2
MaxContainers == 2

(***************************************************************************)
(* Values.                                                                 *)
(***************************************************************************)
None == "None"
Unbound == [unbound |-> TRUE]
NoResponse == [status |-> None, body |-> None]

Tokens == {"t1", "t2"}

\* GET /stacks answers an ordered array of {Id, Name, ...}: the stacks the
\* server holds, in either order.
StackPool ==
    << [Id |-> "1", Name |-> "web"],
       [Id |-> "2", Name |-> "db"],
       [Id |-> "3", Name |-> "api"] >>

\* GET .../containers/json answers an array of {Id, Names[], Image, ...}.
ContainerPool ==
    << [Id |-> "c1", Names |-> <<"/c1">>, Image |-> "nginx"],
       [Id |-> "c2", Names |-> <<"/c2">>, Image |-> "redis"],
       [Id |-> "c3", Names |-> <<"/c3">>, Image |-> "nginx"],
       [Id |-> "c4", Names |-> <<"/c4">>, Image |-> "redis"] >>

\* The log text the server holds for each container.
LogText(cid) ==
    CASE cid = "c1" -> "hello\n"
      [] cid = "c2" -> ""
      [] cid = "c3" -> "bye\n"
      [] OTHER      -> "warn\n"

\* The names the server may report for the created stack.
CreatedNames == {"job-stack", "web"}

\* HTTP statuses the server may answer: 1xx, 2xx, 3xx, 4xx and 5xx.
Statuses == {101, 200, 201, 202, 204, 304, 400, 409, 500}

\* A JSON body that holds neither "jwt" nor "Name".  Every body is JSON, and
\* the elements of the arrays have the keys the run reads (Id, Name, Names,
\* Image).
ErrorBody == [message |-> "error"]

Reverse(q) == [i \in 1..Len(q) |-> q[Len(q) + 1 - i]]

\* The runs of at most n consecutive elements of q.
Windows(q, n) ==
    {w \in {SubSeq(q, a, b) : a \in 1..Len(q), b \in 0..Len(q)} : Len(w) <= n}

StackLists == Windows(StackPool, MaxStacks) \cup Windows(Reverse(StackPool), MaxStacks)
ContainerLists == {SubSeq(ContainerPool, 1, k) : k \in 0..MaxContainers}

(***************************************************************************)
(* Pure pieces of the code.                                                *)
(***************************************************************************)

\* Variant: only server errors (5xx) raise.
raise_for_status_5xx(status) == status >= 500 /\ status < 600

\* requests.Response.raise_for_status, as called at main.py:62, 95, 165, 184:
\* raises HTTPError for a 4xx or 5xx status and for no other.
raise_for_status(status) == status >= 400 /\ status < 600

\* The responses an endpoint may give: any status with any of `bodies`.
Responses(bodies) == [status : Statuses, body : bodies]

\* Variant: the header is built from a fixed credential, not the run's token.
BearerFixed(tok) == "t1"

\* headers = {"Authorization": f"Bearer {jwt_token}"}: the token a call carries.
Bearer(tok) == tok

\* Variant: the subject is built from the container's display name.
SubjectByName(cid) == "Logs for container /" \o cid

\* subject=f"Logs for container {container_id}"
Subject(cid) == "Logs for container " \o cid

\* Variant: the containers are filtered by the stack's Id.
StackKeyById(s) == s.Id

\* stack_id = stack['Name']
StackKey(s) == s.Name

\* Variant: every 2xx status counts as created.
CreateSucceeded2xx(status) == status >= 200 /\ status < 300

\* response.status_code == 200 or response.status_code == 201
CreateSucceeded(status) == status = 200 \/ status = 201

\* Variant: the branch is entered whatever creation returned.
BranchAlways(sid) == TRUE

\* if stack_id is not None:
BranchTaken(sid) == sid # None

\* Variant: a failed log fetch is swallowed inside the loop body, which goes on
\* to the notification (a best-effort loop).
PropagateSkipContainer(site) ==
    IF site = "fetch_logs"
    THEN (IF pc = "fetch_logs" THEN "send_notification" ELSE "new_send_notification")
    ELSE "except"

\* Variant: the try block covers step 1 and the new-stack branch only, so a
\* failed listing in step 2 falls through to the creation of the stack.
PropagateSkipStack(site) ==
    IF site = "get_stack_containers" /\ pc = "get_stack_containers"
    THEN "create_container_from_compose"
    ELSE "except"

\* Where control goes when `site` raises: every statement of the run is inside
\* the one try block of main.py:189, so to its except clauses.
Propagate(site) == "except"

\* except requests.exceptions.RequestException / except Exception
Handler(e) ==
    IF e \in {"HTTPError", "ConnectionError"} THEN "RequestException" ELSE "Exception"

Call(op, tok, arg, ok, ret) ==
    [op |-> op, token |-> tok, arg |-> arg, ok |-> ok, ret |-> ret]

\* The statement after the end of `for stack in stacks`.
AfterStacks == "create_container_from_compose"

\* Variant: the run creates the stack a second time after the new stack's loop.
AfterNewStackAgain ==
    IF Cardinality({i \in 1..Len(calls) : calls[i].op = "create_container_from_compose"}) < 2
    THEN "create_container_from_compose" ELSE "exit"

\* The statement after the end of the new stack's container loop.
AfterNewStack == "exit"

\* `for stack in stacks` after iteration j of the loop over ss: the next
\* iteration when there is one, otherwise the statement after the loop.
NextInStackLoop(j, ss) ==
    IF j < Len(ss) THEN "get_stack_containers" ELSE AfterStacks

Init ==
    /\ pc = "authenticate"
    /\ jwt_token = None
    /\ stacks = <<>>
    /\ si = 0
    /\ stack = Unbound
    /\ stack_id = None
    /\ containers = <<>>
    /\ ci = 0
    /\ container_id = None
    /\ logs = None
    /\ response = NoResponse
    /\ error = None
    /\ caught = <<>>
    /\ calls = <<>>

\* An exception of kind e raised by the call c at `site`.
Raise(site, e, c) ==
    /\ error' = e
    /\ pc' = Propagate(site)
    /\ calls' = Append(calls, c)

(***************************************************************************)
(* main.py:191 and authenticate (main.py:52-63).                           *)
(***************************************************************************)
Authenticate ==
    /\ pc = "authenticate"
    /\ LET failed(e) == Raise("authenticate", e, Call("authenticate", None, <<>>, FALSE, None))
       IN \/ /\ failed("ConnectionError")
             /\ UNCHANGED <<response, jwt_token>>
          \/ \E r \in Responses({[jwt |-> t] : t \in Tokens} \cup {ErrorBody}) :
               /\ response' = r
               /\ IF raise_for_status(r.status)
                  THEN failed("HTTPError") /\ UNCHANGED jwt_token
                  ELSE IF "jwt" \notin DOMAIN r.body
                  THEN failed("KeyError") /\ UNCHANGED jwt_token
                  ELSE /\ jwt_token' = r.body.jwt
                       /\ calls' = Append(calls, Call("authenticate", None, <<>>, TRUE, r.body.jwt))
                       /\ pc' = "get_stacks"
                       /\ UNCHANGED error
    /\ UNCHANGED <<stacks, si, stack, stack_id, containers, ci, container_id, logs, caught>>

(***************************************************************************)
(* main.py:197-199 and get_stacks (main.py:152-166).                       *)
(***************************************************************************)
GetStacks ==
    /\ pc = "get_stacks"
    /\ LET failed(e) == Raise("get_stacks", e, Call("get_stacks", Bearer(jwt_token), <<>>, FALSE, None))
       IN \/ /\ failed("ConnectionError")
             /\ UNCHANGED <<response, stacks, si>>
          \/ \E r \in Responses(StackLists) :
               /\ response' = r
               /\ IF raise_for_status(r.status)
                  THEN failed("HTTPError") /\ UNCHANGED <<stacks, si>>
                  ELSE /\ stacks' = r.body
                       /\ calls' = Append(calls, Call("get_stacks", Bearer(jwt_token), <<>>, TRUE, r.body))
                       /\ si' = 1
                       /\ pc' = NextInStackLoop(0, r.body)
                       /\ UNCHANGED error
    /\ UNCHANGED <<jwt_token, stack, stack_id, containers, ci, container_id, logs, caught>>

(***************************************************************************)
(* main.py:199-205 and get_stack_containers (main.py:169-185): one         *)
(* iteration of the loop over the stacks up to the container loop.         *)
(***************************************************************************)
GetStackContainers ==
    /\ pc = "get_stack_containers"
    /\ stack' = stacks[si]
    /\ stack_id' = StackKey(stacks[si])
    /\ LET key == StackKey(stacks[si])
           failed(e) == Raise("get_stack_containers", e,
                              Call("get_stack_containers", Bearer(jwt_token), <<key>>, FALSE, None))
       IN \/ /\ failed("ConnectionError")
             /\ UNCHANGED <<response, containers, ci, si>>
          \/ \E r \in Responses(ContainerLists) :
               /\ response' = r
               /\ IF raise_for_status(r.status)
                  THEN failed("HTTPError") /\ UNCHANGED <<containers, ci, si>>
                  ELSE /\ containers' = r.body
                       /\ calls' = Append(calls, Call("get_stack_containers", Bearer(jwt_token),
                                                      <<key>>, TRUE, r.body))
                       /\ ci' = 1
                       /\ IF Len(r.body) > 0
                          THEN pc' = "fetch_logs" /\ UNCHANGED si
                          ELSE pc' = NextInStackLoop(si, stacks) /\ si' = si + 1
                       /\ UNCHANGED error
    /\ UNCHANGED <<jwt_token, stacks, container_id, logs, caught>>

(***************************************************************************)
(* main.py:205-220 and fetch_logs (main.py:81-96).                         *)
(***************************************************************************)
FetchLogs ==
    /\ pc = "fetch_logs"
    /\ container_id' = containers[ci].Id
    /\ LET cid == containers[ci].Id
           failed(e) == Raise("fetch_logs", e,
                              Call("fetch_logs", Bearer(jwt_token), <<cid>>, FALSE, None))
       IN \/ /\ failed("ConnectionError")
             /\ UNCHANGED <<response, logs>>
          \/ \E r \in Responses({LogText(cid)}) :
               /\ response' = r
               /\ IF raise_for_status(r.status)
                  THEN failed("HTTPError") /\ UNCHANGED logs
                  ELSE /\ logs' = r.body
                       /\ calls' = Append(calls, Call("fetch_logs", Bearer(jwt_token), <<cid>>, TRUE, r.body))
                       /\ pc' = "send_notification"
                       /\ UNCHANGED error
    /\ UNCHANGED <<jwt_token, stacks, si, stack, stack_id, containers, ci, caught>>

(***************************************************************************)
(* main.py:223-226 and send_notification (main.py:99-117), then the loop   *)
(* heads of main.py:205 and main.py:199.                                   *)
(***************************************************************************)
SendNotification ==
    /\ pc = "send_notification"
    /\ calls' = Append(calls, Call("send_notification", None,
                                   <<Subject(container_id), logs>>, TRUE, None))
    /\ IF ci < Len(containers)
       THEN /\ ci' = ci + 1
            /\ pc' = "fetch_logs"
            /\ UNCHANGED si
       ELSE /\ pc' = NextInStackLoop(si, stacks)
            /\ si' = si + 1
            /\ UNCHANGED ci
    /\ UNCHANGED <<jwt_token, stacks, stack, stack_id, containers, container_id, logs,
                   response, error, caught>>

(***************************************************************************)
(* main.py:240 and create_container_from_compose (main.py:121-149).  The   *)
(* function raises nothing itself for a status other than 200 and 201; a   *)
(* transport failure of requests.post and a body without "Name" propagate. *)
(***************************************************************************)
CreateContainerFromCompose ==
    /\ pc = "create_container_from_compose"
    /\ LET op == "create_container_from_compose"
           failed(e) == Raise(op, e, Call(op, Bearer(jwt_token), <<"job-stack">>, FALSE, None))
           returned(v) == /\ stack_id' = v
                          /\ calls' = Append(calls, Call(op, Bearer(jwt_token), <<"job-stack">>, TRUE, v))
                          /\ pc' = "new_stack_branch"
                          /\ UNCHANGED error
       IN \/ /\ failed("ConnectionError")
             /\ UNCHANGED <<response, stack_id>>
          \/ \E r \in Responses({[Name |-> n] : n \in CreatedNames} \cup {ErrorBody}) :
               /\ response' = r
               /\ IF CreateSucceeded(r.status)
                  THEN IF "Name" \in DOMAIN r.body
                       THEN returned(r.body.Name)
                       ELSE failed("KeyError") /\ UNCHANGED stack_id
                  ELSE returned(None)
    /\ UNCHANGED <<jwt_token, stacks, si, stack, containers, ci, container_id, logs, caught>>

(***************************************************************************)
(* main.py:241-242: the guard of the new-stack branch and its first        *)
(* statement, which reads the loop variable `stack` of main.py:199.        *)
(***************************************************************************)
NewStackBranch ==
    /\ pc = "new_stack_branch"
    /\ IF ~BranchTaken(stack_id)
       THEN pc' = "exit" /\ UNCHANGED error
       ELSE IF stack = Unbound
       THEN error' = "NameError" /\ pc' = Propagate("new_stack_branch")
       ELSE pc' = "new_get_stack_containers" /\ UNCHANGED error
    /\ UNCHANGED <<jwt_token, stacks, si, stack, stack_id, containers, ci, container_id,
                   logs, response, caught, calls>>

(***************************************************************************)
(* main.py:245-247 and get_stack_containers (main.py:169-185).             *)
(***************************************************************************)
NewGetStackContainers ==
    /\ pc = "new_get_stack_containers"
    /\ LET failed(e) == Raise("get_stack_containers", e,
                              Call("get_stack_containers", Bearer(jwt_token), <<stack_id>>, FALSE, None))
       IN \/ /\ failed("ConnectionError")
             /\ UNCHANGED <<response, containers, ci>>
          \/ \E r \in Responses(ContainerLists) :
               /\ response' = r
               /\ IF raise_for_status(r.status)
                  THEN failed("HTTPError") /\ UNCHANGED <<containers, ci>>
                  ELSE /\ containers' = r.body
                       /\ calls' = Append(calls, Call("get_stack_containers", Bearer(jwt_token),
                                                      <<stack_id>>, TRUE, r.body))
                       /\ ci' = 1
                       /\ pc' = IF Len(r.body) > 0 THEN "new_fetch_logs" ELSE AfterNewStack
                       /\ UNCHANGED error
    /\ UNCHANGED <<jwt_token, stacks, si, stack, stack_id, container_id, logs, caught>>

(***************************************************************************)
(* main.py:247-255 and fetch_logs (main.py:81-96).                         *)
(***************************************************************************)
NewFetchLogs ==
    /\ pc = "new_fetch_logs"
    /\ container_id' = containers[ci].Id
    /\ LET cid == containers[ci].Id
           failed(e) == Raise("fetch_logs", e,
                              Call("fetch_logs", Bearer(jwt_token), <<cid>>, FALSE, None))
       IN \/ /\ failed("ConnectionError")
             /\ UNCHANGED <<response, logs>>
          \/ \E r \in Responses({LogText(cid)}) :
               /\ response' = r
               /\ IF raise_for_status(r.status)
                  THEN failed("HTTPError") /\ UNCHANGED logs
                  ELSE /\ logs' = r.body
                       /\ calls' = Append(calls, Call("fetch_logs", Bearer(jwt_token), <<cid>>, TRUE, r.body))
                       /\ pc' = "new_send_notification"
                       /\ UNCHANGED error
    /\ UNCHANGED <<jwt_token, stacks, si, stack, stack_id, containers, ci, caught>>

(***************************************************************************)
(* main.py:258-261 and send_notification (main.py:99-117), then the loop   *)
(* head of main.py:247.                                                    *)
(***************************************************************************)
NewSendNotification ==
    /\ pc = "new_send_notification"
    /\ calls' = Append(calls, Call("send_notification", None,
                                   <<Subject(container_id), logs>>, TRUE, None))
    /\ IF ci < Len(containers)
       THEN ci' = ci + 1 /\ pc' = "new_fetch_logs"
       ELSE pc' = AfterNewStack /\ UNCHANGED ci
    /\ UNCHANGED <<jwt_token, stacks, si, stack, stack_id, containers, container_id, logs,
                   response, error, caught>>

(***************************************************************************)
(* main.py:263-266: the except clauses of the one try block.  The first    *)
(* clause that matches the exception runs, and the script ends.            *)
(***************************************************************************)
TopLevelExcept ==
    /\ pc = "except"
    /\ caught' = Append(caught, Handler(error))
    /\ pc' = "exit"
    /\ UNCHANGED <<jwt_token, stacks, si, stack, stack_id, containers, ci, container_id,
                   logs, response, error, calls>>

Next ==
    \/ Authenticate
    \/ GetStacks
    \/ GetStackContainers
    \/ FetchLogs
    \/ SendNotification
    \/ CreateContainerFromCompose
    \/ NewStackBranch
    \/ NewGetStackContainers
    \/ NewFetchLogs
    \/ NewSendNotification
    \/ TopLevelExcept

Spec == Init /\ [][Next]_vars

\* Every remote call returns a response or an error, so the run always takes
\* its next step.
FairSpec == Spec /\ WF_vars(Next)

(***************************************************************************)
(* The history, read back.                                                 *)
(***************************************************************************)
Idx == 1..Len(calls)
At(op) == {i \in Idx : calls[i].op = op}
RemoteOps ==
    {"authenticate", "get_stacks", "get_stack_containers", "fetch_logs",
     "create_container_from_compose"}
Remote == {i \in Idx : calls[i].op \in RemoteOps}
Created == At("create_container_from_compose")
Finished == pc = "exit"

\* The listings of step 2 (made before any creation) and of the new stack.
Step2Listings == {i \in At("get_stack_containers") : \A c \in Created : i < c}
NewListings == {i \in At("get_stack_containers") : \E c \in Created : c < i}

\* The listing a fetch or notification at position j belongs to.
ListingOf(j) ==
    CHOOSE i \in At("get_stack_containers") :
        i < j /\ \A m \in At("get_stack_containers") : m < j => m <= i

\* The position of the first creation, or one past the end of the history.
FirstCreated ==
    IF Created = {} THEN Len(calls) + 1
    ELSE CHOOSE c \in Created : \A d \in Created : c <= d

\* The number of containers the successful listings at positions lo..hi returned.
RECURSIVE Listed(_, _)
Listed(lo, hi) ==
    IF lo > hi THEN 0
    ELSE (IF calls[lo].op = "get_stack_containers" /\ calls[lo].ok
          THEN Len(calls[lo].ret) ELSE 0) + Listed(lo + 1, hi)

\* The number of log fetches from position j up to the next listing or creation.
RECURSIVE FetchRun(_)
FetchRun(j) ==
    IF j > Len(calls)
         \/ calls[j].op \in {"get_stack_containers", "create_container_from_compose"}
    THEN 0
    ELSE (IF calls[j].op = "fetch_logs" THEN 1 ELSE 0) + FetchRun(j + 1)

\* The containers of listing i, up to position k, have been fetched and
\* notified one after the other, in the order of the listing.
ProcessedUpTo(i, k) ==
    \A j \in 1..k :
        /\ i + 2 * j <= Len(calls)
        /\ calls[i + 2 * j - 1].op = "fetch_logs"
        /\ calls[i + 2 * j - 1].ok
        /\ calls[i + 2 * j - 1].arg = <<calls[i].ret[j].Id>>
        /\ calls[i + 2 * j].op = "send_notification"
        /\ calls[i + 2 * j].arg[1] = "Logs for container " \o calls[i].ret[j].Id

(***************************************************************************)
(* C1: if stack creation returned a name, the run lists the containers of  *)
(* the new stack with that name as key, and for each container returned    *)
(* fetches its logs and notifies; this for every outcome of step 2 that    *)
(* did not fail, the empty list of stacks included.                        *)
(***************************************************************************)
C1_NewStackProcessed ==
    \A c \in Created :
        (Finished /\ calls[c].ok /\ calls[c].ret # None) =>
            /\ c < Len(calls)
            /\ calls[c + 1].op = "get_stack_containers"
            /\ calls[c + 1].arg = <<calls[c].ret>>
            /\ (calls[c + 1].ok /\ calls[Len(calls)].ok) =>
                   ProcessedUpTo(c + 1, Len(calls[c + 1].ret))

(***************************************************************************)
(* C2: create_container_from_compose returns the name the server reports   *)
(* when the status is exactly 200 or 201, and returns None, raising        *)
(* nothing, for every other status.                                        *)
(***************************************************************************)
C2_CreateReturn ==
    (Len(calls) > 0 /\ calls[Len(calls)].op = "create_container_from_compose"
       /\ error # "ConnectionError") =>
        LET last == calls[Len(calls)]
        IN IF response.status = 200 \/ response.status = 201
           THEN "Name" \in DOMAIN response.body =>
                    last.ok /\ last.ret = response.body.Name /\ stack_id = response.body.Name
           ELSE last.ok /\ last.ret = None /\ stack_id = None /\ error = None

C2_Witness ==
    /\ pc = "new_stack_branch"
    /\ response.status = 202
    /\ "Name" \in DOMAIN response.body
    /\ stack_id = None
    /\ Len(stacks) = 2

(***************************************************************************)
(* C3: when stack creation returns None the new-stack branch is skipped:   *)
(* no call follows the create call and the run ends without an error.      *)
(***************************************************************************)
C3_SkipOnNone ==
    \A c \in Created :
        (calls[c].ok /\ calls[c].ret = None) =>
            /\ c = Len(calls)
            /\ error = None
            /\ caught = <<>>
            /\ pc \in {"new_stack_branch", "exit"}

C3_Witness ==
    /\ Finished
    /\ Len(calls) > 0
    /\ calls[Len(calls)].op = "create_container_from_compose"
    /\ calls[Len(calls)].ok
    /\ calls[Len(calls)].ret = None
    /\ Len(stacks) > 0

(***************************************************************************)
(* C4: if fetch_logs fails for the k-th container of a listing, the run    *)
(* aborts at once: the failed call is the last call of the run, the        *)
(* notifications made are exactly those of the containers processed        *)
(* before it (the first k-1 of this listing, and one for each successful   *)
(* fetch earlier), and nothing is called after the failure.                *)
(***************************************************************************)
C4_AbortOnFetchFailure ==
    \A f \in At("fetch_logs") :
        ~calls[f].ok =>
            /\ f = Len(calls)
            /\ pc \in {"except", "exit"}
            /\ LET i == ListingOf(f)
                   k == (f - i + 1) \div 2
               IN /\ calls[i].ok
                  /\ f = i + 2 * k - 1
                  /\ k \in 1..Len(calls[i].ret)
                  /\ calls[f].arg = <<calls[i].ret[k].Id>>
                  /\ ProcessedUpTo(i, k - 1)
                  /\ Cardinality({n \in At("send_notification") : n > i}) = k - 1
            /\ Cardinality(At("send_notification"))
                 = Cardinality({g \in At("fetch_logs") : calls[g].ok})

C4_Witness ==
    /\ Finished
    /\ Len(calls) > 0
    /\ calls[Len(calls)].op = "fetch_logs"
    /\ ~calls[Len(calls)].ok
    /\ Cardinality(Step2Listings) = 2
    /\ Created = {}
    /\ Len(calls) = ListingOf(Len(calls)) + 3
    /\ Cardinality(At("send_notification")) >= 2

(***************************************************************************)
(* C5: each container of a successful listing whose log fetch succeeds is  *)
(* notified exactly once for that listing, right after its fetch, with the *)
(* subject "Logs for container {id}" of its Id and the log text fetched    *)
(* for it as message; start_container is never invoked.                    *)
(***************************************************************************)
C5_NotifyOncePerFetch ==
    /\ \A n \in Idx :
         calls[n].op = "send_notification" =>
           /\ n > 1
           /\ calls[n - 1].op = "fetch_logs"
           /\ calls[n - 1].ok
           /\ calls[n].arg = <<"Logs for container " \o calls[n - 1].arg[1], calls[n - 1].ret>>
    /\ \A i \in Idx :
         (calls[i].op = "get_stack_containers" /\ calls[i].ok) =>
           /\ \A k \in 1..Len(calls[i].ret) :
                LET f == i + 2 * k - 1
                IN /\ f <= Len(calls) =>
                        calls[f].op = "fetch_logs" /\ calls[f].arg = <<calls[i].ret[k].Id>>
                   /\ f < Len(calls) =>
                        calls[f].ok /\ calls[f + 1].op = "send_notification"
                   /\ (f = Len(calls) /\ calls[f].ok) =>
                        pc \in {"send_notification", "new_send_notification"}
           /\ i + 2 * Len(calls[i].ret) < Len(calls) =>
                calls[i + 2 * Len(calls[i].ret) + 1].op
                    \in {"get_stack_containers", "create_container_from_compose"}
    /\ \A f \in Idx :
         calls[f].op = "fetch_logs" =>
           f > 1 /\ calls[f - 1].op \in {"get_stack_containers", "send_notification"}
    /\ At("start_container") = {}

C5_Witness ==
    /\ Finished
    /\ error = None
    /\ Cardinality(At("send_notification")) >= 3
    /\ \E n \in At("send_notification") :
           calls[n].arg = <<"Logs for container c1", "hello\n">>
    /\ \E n \in At("send_notification") :
           calls[n].arg = <<"Logs for container c2", "">> /\ n > 8

C8_CaughtOnceThenEnd ==
    /\ Len(caught) <= 1
    /\ \A i \in Idx : calls[i].op \in RemoteOps \cup {"send_notification"}
    /\ \A i \in Idx :
         ~calls[i].ok =>
            /\ i = Len(calls)
            /\ error # None
            /\ pc \in {"except", "exit"}
            /\ Finished => Len(caught) = 1
            /\ i \in Step2Listings \/ calls[i].op = "get_stacks" => Created = {}
    /\ (Finished /\ error = None) => caught = <<>>
    /\ pc = "except" => caught = <<>> /\ error # None

C8_Witness ==
    /\ Finished
    /\ caught = <<"RequestException">>
    /\ calls[Len(calls)].op = "fetch_logs"
    /\ ~calls[Len(calls)].ok
    /\ \E c \in Created : calls[c].ok /\ calls[c].ret = "job-stack"
    /\ Cardinality(At("send_notification")) >= 1

(***************************************************************************)
(* C9: authenticate is invoked exactly once, before any other remote       *)
(* operation, and every later remote call carries the token that call      *)
(* returned; the token is never replaced during the run.                   *)
(***************************************************************************)
C9_OneTokenPerRun ==
    /\ Len(calls) > 0 => calls[1].op = "authenticate"
    /\ pc # "authenticate" => Len(calls) > 0
    /\ At("authenticate") \subseteq {1}
    /\ \A i \in Remote :
         i > 1 => calls[1].ok /\ calls[i].token = calls[1].ret /\ calls[i].token \in Tokens
    /\ jwt_token = (IF Len(calls) > 0 /\ calls[1].ok THEN calls[1].ret ELSE None)

C9_Witness ==
    /\ Finished
    /\ jwt_token = "t2"
    /\ \E c \in Created : calls[c].token = "t2"
    /\ calls[Len(calls)].op = "fetch_logs"
    /\ ~calls[Len(calls)].ok
    /\ calls[Len(calls)].token = "t2"

(***************************************************************************)
(* C10 as stated: create-stack is invoked at most once, each list is       *)
(* traversed at most once, and the number of remote calls is at most       *)
(* 2 + stacks + containers listed in step 2 + 1 + containers listed for    *)
(* the new stack.                                                          *)
(***************************************************************************)
TraversedOnce ==
    /\ Cardinality(Created) <= 1
    /\ Cardinality(At("get_stacks")) <= 1
    /\ Cardinality(Step2Listings) <= Len(stacks)
    /\ Cardinality(NewListings) <= 1
    /\ \A i \in Idx :
         calls[i].op = "get_stack_containers" =>
            FetchRun(i + 1) <= (IF calls[i].ok THEN Len(calls[i].ret) ELSE 0)

C10_CallBoundAsStated ==
    /\ TraversedOnce
    /\ Cardinality(Remote)
         <= 2 + Len(stacks) + Listed(1, FirstCreated - 1) + 1
              + Listed(FirstCreated + 1, Len(calls))

(***************************************************************************)
(* C10 amended: every run terminates; create-stack is invoked at most      *)
(* once, each list is traversed at most once, and the number of remote     *)
(* calls is at most 2 + stacks + containers listed in step 2 + 2 +         *)
(* containers listed for the new stack (the creation and the listing of    *)
(* the new stack are two calls).                                           *)
(***************************************************************************)
CallBound ==
    /\ TraversedOnce
    /\ Cardinality(Remote)
         <= 2 + Len(stacks) + Listed(1, FirstCreated - 1) + 2
              + Listed(FirstCreated + 1, Len(calls))

C10_TerminatesWithinBound == <>Finished /\ []CallBound

C10_Witness ==
    /\ Finished
    /\ error = None
    /\ Len(stacks) = 2
    /\ Listed(FirstCreated + 1, Len(calls)) > 0
    /\ Cardinality(Remote)
         = 2 + Len(stacks) + Listed(1, FirstCreated - 1) + 2
              + Listed(FirstCreated + 1, Len(calls))

====
